---- MODULE Spec2Model ----
(***************************************************************************)
(* KVDataStore (src/kvstoe.hpp): an in-memory map of key -> ValueEntry     *)
(* guarded by one non-recursive std::mutex, a whole-map JSON snapshot      *)
(* file, and a detached sweeper thread.                                    *)
(*                                                                         *)
(* Granularity.  A member function that holds the mutex over a stretch of  *)
(* code is one step for that stretch.  create and remove take no lock, so  *)
(* their check and their write are separate steps that other threads       *)
(* interleave with; so are the snapshot write of the saveToFile they call  *)
(* and its unlock-and-return.  Time is counted in units of the sweeper's   *)
(* sleep interval (10 minutes); a ttl of 1 is one such unit.               *)
(*                                                                         *)
(* ret is the return (or the exception) of the step just taken; created    *)
(* is a history variable: the values that successful creates stored.       *)
(*                                                                         *)
(* Undefined behaviour.  saveToFile locks mtx; read and batchCreate call   *)
(* it while already holding mtx.  Locking a std::mutex the thread owns is  *)
(* undefined: the thread either blocks forever or the lock throws          *)
(* std::system_error.  Both outcomes are modelled (SaveRelock).            *)
(***************************************************************************)
EXTENDS Integers, Sequences, FiniteSets, TLC

VARIABLES store, file, now, mtx, pc, call, ret, phase, wake, danglingSweep, calls,
          created

vars == <<store, file, now, mtx, pc, call, ret, phase, wake, danglingSweep, calls,
          created>>

---------------------------------------------------------------------------
\* Program constants
MAX_KEY_LENGTH == 32
MAX_VALUE_SIZE == 16 * 1024
BATCH_LIMIT == 100
\* sleep_for(chrono::minutes(10)), in time units
SweepInterval == 1

\* Bounds of the model: the clock's last instant, and the number of calls
\* (member functions, destructor) made in one run
MaxTime == 2
MaxCalls == 2

---------------------------------------------------------------------------
\* Inputs
Clients == {1, 2}
NoOwner == 0

\* a key of exactly MAX_KEY_LENGTH characters, and one of a character more
EdgeKey == "k0123456789012345678901234567891"
LongKey == "k01234567890123456789012345678912"
StoreKeys == {"a", EdgeKey}
\* key.length()
KeyLength(k) == Len(k)

\* EdgeValue stands for a value whose text is exactly MAX_VALUE_SIZE bytes
\* long, BigValue for one whose text is one byte longer
EdgeValue == "Edge"
BigValue == "Big"

\* json::dump() of the value {"name": v}
JsonDump(v) == "{\"name\":\"" \o v \o "\"}"
\* value.dump().length()
DumpLength(v) ==
    IF v = BigValue THEN MAX_VALUE_SIZE + 1
    ELSE IF v = EdgeValue THEN MAX_VALUE_SIZE
    ELSE Len(JsonDump(v))

Entry(k, v) == [key |-> k, value |-> v]
\* The argument lists of create that the threads use: a stored key under two
\* values, without and with a TTL, and keys and values over the limits
Creates ==
    { <<"a", "Alice", 0>>, <<"a", "Bob", 1>>, <<EdgeKey, EdgeValue, 0>>,
      <<LongKey, "Alice", 0>>, <<EdgeKey, BigValue, 0>>, <<LongKey, BigValue, 1>> }

\* BATCH_LIMIT + 1 individually valid entries, and exactly BATCH_LIMIT of them
Oversized == [i \in 1..(BATCH_LIMIT + 1) |-> Entry("a", "Alice")]
Full == [i \in 1..BATCH_LIMIT |-> Entry("a", "Alice")]
\* The argument lists of batchCreate that the threads use: the
\* vector<pair<string, json>> and the ttl
Batches ==
    { <<<<>>, 0>>,
      <<<<Entry("a", "Alice")>>, 0>>,
      <<<<Entry("a", "Alice"), Entry(EdgeKey, EdgeValue)>>, 1>>,
      <<<<Entry(EdgeKey, EdgeValue), Entry("a", "Bob")>>, 0>>,
      <<<<Entry("a", "Alice"), Entry("a", "Bob")>>, 1>>,
      <<<<Entry("a", "Alice"), Entry(LongKey, "Bob")>>, 0>>,
      <<<<Entry("a", "Alice"), Entry(EdgeKey, BigValue)>>, 0>>,
      <<<<Entry(LongKey, "Alice"), Entry(EdgeKey, EdgeValue)>>, 1>>,
      <<Oversized, 0>>,
      <<Full, 0>> }

---------------------------------------------------------------------------
\* Return values
OkCreated == "Key-value pair created successfully."
OkDeleted == "Key-value pair deleted successfully."
OkBatch == "Batch create operation successful."
ErrKeyLength == "Error: Key length exceeds 32 characters."
ErrValueSize == "Error: Value size exceeds 16KB."
ErrExists == "Error: Key already exists."
ErrNotFound == "Error: Key not found."
ErrExpired == "Error: Key has expired."
ErrBatchLimit == "Error: Batch size exceeds limit of 100 entries."
ErrBatchSize == "Error: One or more keys/values exceed size limits."
ErrBatchDup == "Error: Duplicate key found in batch."
\* exceptions that leave the member function
ThrowRuntime == "throw runtime_error: Failed to open file for writing."
ThrowSystem == "throw system_error: resource deadlock would occur"
Pass == "pass"

---------------------------------------------------------------------------
\* The map
EmptyStore == [k \in {} |-> [value |-> "", ttl |-> 0]]
Put(s, k, e) == [x \in DOMAIN s \cup {k} |-> IF x = k THEN e ELSE s[x]]
\* An erase that leaves the entry where it is
EraseNothing(s, k) == s
Erase(s, k) == [x \in DOMAIN s \ {k} |-> s[x]]

\* entry.ttl = ttl == 0 ? 0 : time(nullptr) + ttl
ExpiryOf(ttl) == IF ttl = 0 THEN 0 ELSE now + ttl
ValueEntry(v, ttl) == [value |-> v, ttl |-> ExpiryOf(ttl)]

\* An expiry test under which an entry is gone at its expiry instant already
isExpiredInclusive(k) ==
    IF k \notin DOMAIN store THEN FALSE
    ELSE store[k].ttl # 0 /\ now >= store[k].ttl

isExpired(k) ==
    IF k \notin DOMAIN store THEN FALSE
    ELSE store[k].ttl # 0 /\ now > store[k].ttl

\* The snapshot file: absent, or the text of a JSON value
NoFile == [kind |-> "absent", members |-> {}]
\* json j; for each entry j[key] = {value, ttl}; j.dump()
\* (a json that was never assigned to dumps as null)
Serialize(s) ==
    IF DOMAIN s = {} THEN [kind |-> "null", members |-> {}]
    ELSE [kind |-> "object",
          members |-> {[key |-> k, value |-> s[k].value, ttl |-> s[k].ttl] : k \in DOMAIN s}]
\* A load that keeps the values and forgets the expiry times
ParseDropTtl(f) ==
    [k \in {m.key : m \in f.members} |->
        LET m == CHOOSE m \in f.members : m.key = k
        IN [value |-> m.value, ttl |-> 0]]
\* file >> data; for (key, entry) in data.items(): store[key] = {entry.value, entry.ttl}
Parse(f) ==
    [k \in {m.key : m \in f.members} |->
        LET m == CHOOSE m \in f.members : m.key = k
        IN [value |-> m.value, ttl |-> m.ttl]]

\* History: created[k] is the value of the latest create(k, v) that returned
\* success, forgotten when k is erased from the map
Forget(h, ks) == [k \in DOMAIN h \ ks |-> h[k]]

\* A thread's call in progress, and the return of the step just taken
NoCall == [op |-> "none", key |-> "", value |-> "", ttl |-> 0, entries |-> <<>>, idx |-> 0]
\* (the arguments a finished call does not need any more are dropped)
Args(c) == [NoCall EXCEPT !.op = c.op, !.key = c.key, !.value = c.value, !.entries = c.entries]
Done(c) == [NoCall EXCEPT !.op = c.op, !.key = c.key, !.value = c.value]
NoRet == [t |-> NoOwner, r |-> "", call |-> NoCall]

---------------------------------------------------------------------------
Init ==
    /\ store = EmptyStore
    /\ file = NoFile
    /\ now = 0
    /\ mtx = NoOwner
    /\ pc = [t \in Clients |-> "idle"]
    /\ call = [t \in Clients |-> NoCall]
    /\ ret = NoRet
    /\ phase = "ready"
    /\ wake = SweepInterval
    /\ danglingSweep = FALSE
    /\ calls = 0
    /\ created = [k \in {} |-> ""]

\* time(nullptr) moves on
Tick ==
    /\ now < MaxTime
    /\ now' = now + 1
    /\ ret' = NoRet
    /\ UNCHANGED <<store, file, mtx, pc, call, phase, wake, danglingSweep, calls, created>>

\* thread t starts a call of a public member function
Enter(t) ==
    /\ phase = "ready"
    /\ pc[t] = "idle"
    /\ calls < MaxCalls
    /\ calls' = calls + 1

\* the call c of thread t returns r (or leaves with the exception r)
Return(t, c, r) ==
    /\ pc' = [pc EXCEPT ![t] = "idle"]
    /\ call' = [call EXCEPT ![t] = NoCall]
    /\ ret' = [t |-> t, r |-> r, call |-> Args(c)]

Goto(t, label, c) ==
    /\ pc' = [pc EXCEPT ![t] = label]
    /\ call' = [call EXCEPT ![t] = c]
    /\ ret' = NoRet

\* A create that looks the key up before it measures the value
CreateCheckDupFirst(k, v) ==
    IF KeyLength(k) > MAX_KEY_LENGTH THEN ErrKeyLength
    ELSE IF k \in DOMAIN store THEN ErrExists
    ELSE IF DumpLength(v) > MAX_VALUE_SIZE THEN ErrValueSize
    ELSE Pass

\* A create for which an entry past its expiry no longer counts as present
CreateCheckExpiryAware(k, v) ==
    IF KeyLength(k) > MAX_KEY_LENGTH THEN ErrKeyLength
    ELSE IF DumpLength(v) > MAX_VALUE_SIZE THEN ErrValueSize
    ELSE IF k \in DOMAIN store /\ ~isExpired(k) THEN ErrExists
    ELSE Pass

\* create, lines 99-101: the three checks, in order
CreateCheck(k, v) ==
    IF KeyLength(k) > MAX_KEY_LENGTH THEN ErrKeyLength
    ELSE IF DumpLength(v) > MAX_VALUE_SIZE THEN ErrValueSize
    ELSE IF k \in DOMAIN store THEN ErrExists
    ELSE Pass

CreateCall(t, k, v, ttl) ==
    /\ Enter(t)
    /\ LET c == [NoCall EXCEPT !.op = "create", !.key = k, !.value = v, !.ttl = ttl]
       IN IF CreateCheck(k, v) = Pass
          THEN Goto(t, "create_insert", c)
          ELSE Return(t, c, CreateCheck(k, v))
    /\ UNCHANGED <<store, file, now, mtx, phase, wake, danglingSweep, created>>

\* create, lines 103-106
CreateInsert(t) ==
    /\ pc[t] = "create_insert"
    /\ store' = Put(store, call[t].key, ValueEntry(call[t].value, call[t].ttl))
    /\ Goto(t, "save", Done(call[t]))
    /\ UNCHANGED <<file, now, mtx, phase, wake, danglingSweep, calls, created>>

\* saveToFile's effect on the file: ofstream(filePath, ios::trunc) either
\* opens (the whole map is written) or does not (the file is left as it was)
FileAfterSave(opened) == IF opened THEN Serialize(store) ELSE file

\* What the caller gets once saveToFile has run: the success message of the
\* member function, or the runtime_error saveToFile threw (nothing catches it)
SaveOutcome(op, opened) ==
    IF ~opened THEN ThrowRuntime
    ELSE CASE op = "create" -> OkCreated
           [] op = "remove" -> OkDeleted
           [] op = "batchCreate" -> OkBatch
           [] op = "read" -> ErrExpired

\* A create that undoes its insertion when saveToFile throws
StoreAfterSaveRollback(t, opened) ==
    IF ~opened /\ call[t].op = "create" THEN Erase(store, call[t].key) ELSE store

\* The map once saveToFile has run or thrown: no handler undoes the mutation
StoreAfterSave(t, opened) == store

\* saveToFile called without the mutex held (create, remove), lines 27-40:
\* lock, open, write; a failed open throws and unwinding unlocks
SaveToFile(t) ==
    /\ pc[t] = "save"
    /\ mtx = NoOwner
    /\ \E opened \in BOOLEAN :
          /\ file' = FileAfterSave(opened)
          /\ store' = StoreAfterSave(t, opened)
          /\ IF opened
             THEN /\ mtx' = t
                  /\ Goto(t, "save_unlock", call[t])
             ELSE /\ mtx' = mtx
                  /\ Return(t, call[t], SaveOutcome(call[t].op, opened))
    /\ UNCHANGED <<now, phase, wake, danglingSweep, calls, created>>

\* saveToFile, line 41, and the caller's return statement: unlock, return
SaveUnlock(t) ==
    /\ pc[t] = "save_unlock"
    /\ mtx' = NoOwner
    /\ Return(t, call[t], SaveOutcome(call[t].op, TRUE))
    /\ created' = IF call[t].op = "create"
                  THEN Put(created, call[t].key, call[t].value)
                  ELSE created
    /\ UNCHANGED <<store, file, now, phase, wake, danglingSweep, calls>>

\* saveToFile called with the mutex already held by the caller (read,
\* batchCreate): lock_guard on a mutex the thread owns is undefined; the thread
\* blocks forever, or lock() throws system_error and the caller's lock_guard
\* releases the mutex while the exception leaves the member function
RelockOutcomes == {"hang", "throw"}

SaveRelock(t) ==
    /\ pc[t] = "save"
    /\ mtx = t
    /\ \E o \in RelockOutcomes :
          IF o = "hang"
          THEN /\ Goto(t, "hung", call[t])
               /\ UNCHANGED mtx
          ELSE /\ mtx' = NoOwner
               /\ Return(t, call[t], ThrowSystem)
    /\ UNCHANGED <<store, file, now, phase, wake, danglingSweep, calls, created>>

\* A read that does not take the mutex
ReadCallUnlocked(t, k) ==
    /\ Enter(t)
    /\ LET c == [NoCall EXCEPT !.op = "read", !.key = k]
       IN IF k \notin DOMAIN store
          THEN /\ Return(t, c, ErrNotFound)
               /\ UNCHANGED store
          ELSE IF isExpired(k)
          THEN /\ store' = Erase(store, k)
               /\ Goto(t, "save", c)
          ELSE /\ Return(t, c, JsonDump(store[k].value))
               /\ UNCHANGED store
    /\ created' = Forget(created, DOMAIN store \ DOMAIN store')
    /\ UNCHANGED <<file, now, mtx, phase, wake, danglingSweep>>

\* A read that pushes back the expiry time of the live key it returns
ReadCallRefresh(t, k) ==
    /\ Enter(t)
    /\ mtx = NoOwner
    /\ LET c == [NoCall EXCEPT !.op = "read", !.key = k]
       IN IF k \notin DOMAIN store
          THEN /\ Return(t, c, ErrNotFound)
               /\ UNCHANGED <<store, mtx>>
          ELSE IF isExpired(k)
          THEN /\ store' = Erase(store, k)
               /\ mtx' = t
               /\ Goto(t, "save", c)
          ELSE /\ Return(t, c, JsonDump(store[k].value))
               /\ store' = IF store[k].ttl = 0 THEN store
                            ELSE [store EXCEPT ![k].ttl = store[k].ttl + 1]
               /\ UNCHANGED mtx
    /\ created' = Forget(created, DOMAIN store \ DOMAIN store')
    /\ UNCHANGED <<file, now, phase, wake, danglingSweep>>

\* read, lines 112-121
ReadCall(t, k) ==
    /\ Enter(t)
    /\ mtx = NoOwner
    /\ LET c == [NoCall EXCEPT !.op = "read", !.key = k]
       IN IF k \notin DOMAIN store
          THEN /\ Return(t, c, ErrNotFound)
               /\ UNCHANGED <<store, mtx>>
          ELSE IF isExpired(k)
          THEN /\ store' = Erase(store, k)
               /\ mtx' = t
               /\ Goto(t, "save", c)
          ELSE /\ Return(t, c, JsonDump(store[k].value))
               /\ UNCHANGED <<store, mtx>>
    /\ created' = Forget(created, DOMAIN store \ DOMAIN store')
    /\ UNCHANGED <<file, now, phase, wake, danglingSweep>>

\* A remove for which an expired entry is gone already
RemoveCallExpiryAware(t, k) ==
    /\ Enter(t)
    /\ LET c == [NoCall EXCEPT !.op = "remove", !.key = k]
       IN IF k \notin DOMAIN store \/ isExpired(k)
          THEN Return(t, c, ErrNotFound)
          ELSE Goto(t, "remove_erase", c)
    /\ UNCHANGED <<store, file, now, mtx, phase, wake, danglingSweep, created>>

\* remove, line 127
RemoveCall(t, k) ==
    /\ Enter(t)
    /\ LET c == [NoCall EXCEPT !.op = "remove", !.key = k]
       IN IF k \notin DOMAIN store
          THEN Return(t, c, ErrNotFound)
          ELSE Goto(t, "remove_erase", c)
    /\ UNCHANGED <<store, file, now, mtx, phase, wake, danglingSweep, created>>

\* remove, line 128
RemoveErase(t) ==
    /\ pc[t] = "remove_erase"
    /\ store' = Erase(store, call[t].key)
    /\ Goto(t, "save", call[t])
    /\ created' = Forget(created, {call[t].key})
    /\ UNCHANGED <<file, now, mtx, phase, wake, danglingSweep, calls>>

\* batchCreate, lines 136-148: the size limit, then the validation loop, which
\* returns at the first entry that is too long, too large or already stored
SizeViolation(e) == KeyLength(e.key) > MAX_KEY_LENGTH \/ DumpLength(e.value) > MAX_VALUE_SIZE

\* A batchCreate that turns away a batch of exactly BATCH_LIMIT entries
BatchCheckInclusive(entries) ==
    IF Len(entries) >= BATCH_LIMIT THEN ErrBatchLimit
    ELSE LET bad == {i \in 1..Len(entries) :
                        SizeViolation(entries[i]) \/ entries[i].key \in DOMAIN store}
         IN IF bad = {} THEN Pass
            ELSE LET i == CHOOSE i \in bad : \A j \in bad : i <= j
                 IN IF SizeViolation(entries[i]) THEN ErrBatchSize ELSE ErrBatchDup

BatchCheck(entries) ==
    IF Len(entries) > BATCH_LIMIT THEN ErrBatchLimit
    ELSE LET bad == {i \in 1..Len(entries) :
                        SizeViolation(entries[i]) \/ entries[i].key \in DOMAIN store}
         IN IF bad = {} THEN Pass
            ELSE LET i == CHOOSE i \in bad : \A j \in bad : i <= j
                 IN IF SizeViolation(entries[i]) THEN ErrBatchSize ELSE ErrBatchDup

\* A batchCreate that validates and inserts in one loop: the first entry is
\* stored before a later entry is found to be bad
StoreAfterBatchRejectPartial(entries, ttl) ==
    IF Len(entries) = 0 \/ Len(entries) > BATCH_LIMIT THEN store
    ELSE IF SizeViolation(entries[1]) \/ entries[1].key \in DOMAIN store THEN store
    ELSE Put(store, entries[1].key, ValueEntry(entries[1].value, ttl))

\* The map when batchCreate returns an error: the validation loop writes nothing
StoreAfterBatchReject(entries, ttl) == store

BatchCall(t, entries, ttl) ==
    /\ Enter(t)
    /\ mtx = NoOwner
    /\ LET c == [NoCall EXCEPT !.op = "batchCreate", !.entries = entries, !.ttl = ttl, !.idx = 1]
       IN IF BatchCheck(entries) # Pass
          THEN /\ Return(t, c, BatchCheck(entries))
               /\ store' = StoreAfterBatchReject(entries, ttl)
               /\ UNCHANGED mtx
          ELSE /\ mtx' = t
               /\ store' = store
               /\ IF Len(entries) = 0
                  THEN Goto(t, "save", Done(c))
                  ELSE Goto(t, "batch_insert", c)
    /\ UNCHANGED <<file, now, phase, wake, danglingSweep, created>>

\* batchCreate, lines 150-155: one iteration of the insertion loop
BatchInsert(t) ==
    /\ pc[t] = "batch_insert"
    /\ LET c == call[t]
           e == c.entries[c.idx]
       IN /\ store' = Put(store, e.key, ValueEntry(e.value, c.ttl))
          /\ IF c.idx = Len(c.entries)
             THEN Goto(t, "save", Done(c))
             ELSE Goto(t, "batch_insert", [c EXCEPT !.idx = c.idx + 1])
    /\ UNCHANGED <<file, now, mtx, phase, wake, danglingSweep, calls, created>>

\* cleanupExpiredKeys, lines 65-74
cleanupExpiredKeys == [k \in {x \in DOMAIN store : ~isExpired(x)} |-> store[k]]

\* A sweeper that writes the snapshot after its pass
SweepPassPersist ==
    /\ phase = "ready"
    /\ now >= wake
    /\ mtx = NoOwner
    /\ store' = cleanupExpiredKeys
    /\ file' = Serialize(cleanupExpiredKeys)
    /\ ret' = NoRet
    /\ created' = Forget(created, DOMAIN store \ DOMAIN store')
    /\ UNCHANGED <<now, mtx, pc, call, phase, wake, danglingSweep, calls>>

\* periodicCleanup, lines 76-81: sleep, then one pass under the mutex.  wake is
\* the instant the first sleep ends.  The clock counts sleep intervals, so the
\* pass after one at instant n comes at a later instant; a pass repeated at n
\* itself finds nothing to erase (whatever was written at n expires after n),
\* which is why wake need not move with each pass.
SweepPass ==
    /\ phase = "ready"
    /\ now >= wake
    /\ mtx = NoOwner
    /\ store' = cleanupExpiredKeys
    /\ ret' = NoRet
    /\ created' = Forget(created, DOMAIN store \ DOMAIN store')
    /\ UNCHANGED <<file, now, mtx, pc, call, phase, wake, danglingSweep, calls>>

\* The sweeper is detached and never stopped: after the destructor it wakes
\* and runs its pass on the destroyed instance
SweepDestroyed ==
    /\ phase = "closed"
    /\ now >= wake
    /\ ~danglingSweep
    /\ danglingSweep' = TRUE
    /\ ret' = NoRet
    /\ UNCHANGED <<store, file, now, mtx, pc, call, phase, wake, calls, created>>

\* ~KVDataStore: saveToFile; a runtime_error leaving a destructor ends the
\* process (std::terminate)
Destroy ==
    /\ phase = "ready"
    /\ \A t \in Clients : pc[t] = "idle"
    /\ mtx = NoOwner
    /\ calls < MaxCalls
    /\ calls' = calls + 1
    /\ \E opened \in BOOLEAN :
          /\ file' = FileAfterSave(opened)
          /\ phase' = IF opened THEN "closed" ELSE "terminated"
    /\ ret' = NoRet
    /\ UNCHANGED <<store, now, mtx, pc, call, wake, danglingSweep, created>>

\* loadFromFile, lines 43-57, on the empty map of a new instance
loadFromFile == Parse(file)

\* KVDataStore(path): load the snapshot if the file is there, start the sweeper
Construct ==
    /\ phase \in {"closed", "terminated"}
    /\ store' = IF file.kind # "absent" THEN loadFromFile ELSE EmptyStore
    /\ phase' = "ready"
    /\ wake' = now + SweepInterval
    /\ danglingSweep' = FALSE
    /\ ret' = NoRet
    /\ created' = [k \in {} |-> ""]
    /\ UNCHANGED <<file, now, mtx, pc, call, calls>>

Next ==
    \/ Tick
    \/ \E t \in Clients, a \in Creates : CreateCall(t, a[1], a[2], a[3])
    \/ \E t \in Clients : CreateInsert(t)
    \/ \E t \in Clients : SaveToFile(t)
    \/ \E t \in Clients : SaveUnlock(t)
    \/ \E t \in Clients : SaveRelock(t)
    \/ \E t \in Clients, k \in StoreKeys : ReadCall(t, k)
    \/ \E t \in Clients, k \in StoreKeys : RemoveCall(t, k)
    \/ \E t \in Clients : RemoveErase(t)
    \/ \E t \in Clients, b \in Batches : BatchCall(t, b[1], b[2])
    \/ \E t \in Clients : BatchInsert(t)
    \/ SweepPass
    \/ SweepDestroyed
    \/ Destroy
    \/ Construct

Spec == Init /\ [][Next]_vars

---------------------------------------------------------------------------
\* Properties

\* C1 (no overwrite): once create(k, v) has returned success, and for as long
\* as k stays in the map, the map holds v under k, which is what read(k)
\* returns and what makes a later create(k, v2) a rejected duplicate.
C1_NoOverwrite ==
    \A k \in DOMAIN created \cap DOMAIN store : store[k].value = created[k]

\* C2 (TTL expiry on read): a read that finds its key past its expiry time
\* erases the entry and comes back with "Error: Key has expired."; it neither
\* stays inside the call for ever nor leaves it with an exception.
C2_ExpiredReadReturnsExpired ==
    /\ \A t \in Clients : call[t].op = "read" => pc[t] # "hung"
    /\ ret.call.op = "read" => ret.r \notin {ThrowSystem, ThrowRuntime}

\* C3 (duplicate rejection under concurrency): an insertion by create never
\* lands on a key that is in the map, and an insertion by batchCreate never
\* lands on a key some other call has put there, so that the value a
\* successful call stored is never replaced by another call.
C3_NoInsertOverPresentKey ==
    [][\A t \in Clients :
        /\ (pc[t] = "create_insert" /\ pc'[t] = "save")
              => call[t].key \notin DOMAIN store
        /\ (pc[t] = "batch_insert" /\ pc'[t] \in {"batch_insert", "save"}
                /\ call'[t] # call[t])
              => LET c == call[t]
                     e == c.entries[c.idx]
                 IN e.key \in DOMAIN store
                       => \E j \in 1..(c.idx - 1) : c.entries[j].key = e.key]_vars

\* A thread is inside a member function between two of its accesses to the map
InMap(t) == pc[t] \in {"create_insert", "remove_erase", "batch_insert"}

\* C4 (mutual exclusion on the map): a thread that is in the middle of its
\* accesses to the map holds the mutex, and no two threads are in the middle
\* of their accesses at the same time.
C4_MutualExclusion ==
    /\ \A t \in Clients : InMap(t) => mtx = t
    /\ \A t, u \in Clients : (InMap(t) /\ InMap(u)) => t = u

\* C5 (no call hangs): no thread is blocked for ever inside a member function,
\* waiting for the mutex it holds itself.
C5_NoCallHangs == \A t \in Clients : pc[t] # "hung"

\* C6 (intra-batch duplicates are rejected): a batch that names one key twice
\* never gets to the insertion loop, so neither of its values is stored.
C6_IntraBatchDuplicateRejected ==
    \A t \in Clients :
        pc[t] = "batch_insert"
           => \A i, j \in 1..Len(call[t].entries) :
                 call[t].entries[i].key = call[t].entries[j].key => i = j

BatchErrors == {ErrBatchLimit, ErrBatchSize, ErrBatchDup}

\* C7 (batchCreate is all-or-nothing): a batchCreate with an entry whose key is
\* longer than 32, whose value is larger than 16384 bytes or whose key is in
\* the map does not start inserting; and the step in which batchCreate returns
\* an error leaves the map (and the file) exactly as they were.
C7_BatchAllOrNothing ==
    [][\A t \in Clients :
        /\ (pc[t] = "idle" /\ pc'[t] = "batch_insert")
              => \A i \in 1..Len(call'[t].entries) :
                    LET e == call'[t].entries[i]
                    IN /\ KeyLength(e.key) <= 32
                       /\ DumpLength(e.value) <= 16384
                       /\ e.key \notin DOMAIN store
        /\ (pc[t] = "idle" /\ ret'.t = t /\ ret'.call.op = "batchCreate"
                /\ ret'.r \in BatchErrors)
              => store' = store /\ file' = file]_vars

\* a batch was rejected for its second entry, whose key is in the map, while
\* its first entry was valid and new: nothing of it is in the map
C7_Witness ==
    /\ ret.call.op = "batchCreate"
    /\ ret.r = ErrBatchDup
    /\ Len(ret.call.entries) = 2
    /\ ret.call.entries[2].key \in DOMAIN store
    /\ ret.call.entries[1].key \notin DOMAIN store

\* C8 (durability on return): in the state in which create, remove or
\* batchCreate returns success, the file is the serialization of the map:
\* every key of the map with its value and expiry, and no other key.
C8_DurableOnReturn ==
    ret.r \in {OkCreated, OkDeleted, OkBatch} => file = Serialize(store)

\* C9 (snapshot round-trip across restart): constructing a store on the file
\* the destructor of the previous instance wrote gives a map in which every
\* key that was present and is not expired has the same value and the same
\* expiry time, and in which no other key appears.
C9_RoundTrip ==
    [][(phase = "closed" /\ phase' = "ready")
          => /\ \A k \in DOMAIN store :
                   ~isExpired(k) => k \in DOMAIN store' /\ store'[k] = store[k]
             /\ DOMAIN store' \subseteq DOMAIN store]_vars

\* a second instance, constructed at a later instant than the first, holds an
\* entry with an expiry time that it loaded from the snapshot
C9_Witness ==
    /\ phase = "ready"
    /\ wake > SweepInterval
    /\ file.kind = "object"
    /\ \E k \in DOMAIN store : store[k].ttl # 0

\* C10 (persist failure does not roll back): the step in which saveToFile
\* fails to open the file, and the call leaves with that failure, changes
\* neither the map, which keeps the mutation the call has applied, nor the
\* file, which keeps its previous content.
C10_NoRollback ==
    [][\A t \in Clients :
        (pc[t] = "save" /\ pc'[t] = "idle" /\ ret'.t = t /\ ret'.r = ThrowRuntime)
           => store' = store /\ file' = file]_vars

\* a create failed to persist: its key is in the map and not in the file
C10_Witness ==
    /\ ret.r = ThrowRuntime
    /\ ret.call.op = "create"
    /\ ret.call.key \in DOMAIN store
    /\ ret.call.key \notin {m.key : m \in file.members}

Throws == {ThrowRuntime, ThrowSystem}

\* C11 (failures are returned, not thrown): whatever fails inside create,
\* read, remove or batchCreate, a failed snapshot write included, the call
\* ends by returning a value: no call is left through an exception.
C11_NoExceptionEscapes == ret.r \notin Throws

\* C12 (create validation and its order): a create fails with the key-length
\* error if its key is longer than 32; otherwise with the value-size error if
\* the text of its value is longer than 16384 bytes; otherwise with the
\* duplicate error if the key is in the map; it fails in no other case (a key
\* of exactly 32 characters with a value of exactly 16384 bytes goes on to be
\* inserted), and the step in which it fails changes neither map nor file.
C12_CreateValidation ==
    [][\A t \in Clients :
        (pc[t] = "idle" /\ calls' = calls + 1)
           => /\ pc'[t] = "create_insert"
                    => /\ KeyLength(call'[t].key) <= 32
                       /\ DumpLength(call'[t].value) <= 16384
                       /\ call'[t].key \notin DOMAIN store
              /\ (ret'.t = t /\ ret'.call.op = "create")
                    => LET k == ret'.call.key
                           v == ret'.call.value
                       IN /\ ret'.r = IF KeyLength(k) > 32 THEN ErrKeyLength
                                      ELSE IF DumpLength(v) > 16384 THEN ErrValueSize
                                      ELSE ErrExists
                          /\ (KeyLength(k) <= 32 /\ DumpLength(v) <= 16384)
                                => k \in DOMAIN store
                          /\ store' = store
                          /\ file' = file]_vars

\* a key of exactly 32 characters was created with a value of exactly 16384
\* bytes, and a second create of that key, with a value that is too large, was
\* rejected for the value and not for the duplicate
C12_Witness ==
    /\ ret.call.op = "create"
    /\ ret.r = ErrValueSize
    /\ ret.call.key \in DOMAIN store \cap DOMAIN created
    /\ KeyLength(ret.call.key) = 32
    /\ DumpLength(created[ret.call.key]) = 16384

\* every entry of the batch is within the size limits and names a key that is
\* not in the map
AllValidAndNew(entries) ==
    \A i \in 1..Len(entries) :
        /\ KeyLength(entries[i].key) <= 32
        /\ DumpLength(entries[i].value) <= 16384
        /\ entries[i].key \notin DOMAIN store

FileKeys == {m.key : m \in file.members}

PastExpiry(e) == e.ttl # 0 /\ now > e.ttl

\* C15 (expiry predicate): read and the sweep take an entry for expired exactly
\* when its expiry is not 0 and now > expiry.  A read of a key in the map
\* returns the value, and leaves the map alone, if and only if the entry is not
\* past its expiry (so always for an expiry of 0, and still at now = expiry);
\* and a sweep that erases anything keeps exactly the entries not past theirs.
C15_ExpiryPredicate ==
    [][/\ \A t \in Clients :
            (pc[t] = "idle" /\ calls' = calls + 1)
               => /\ (ret'.t = t /\ ret'.call.op = "read"
                        /\ ret'.call.key \in DOMAIN store)
                        => /\ ~PastExpiry(store[ret'.call.key])
                           /\ ret'.r = JsonDump(store[ret'.call.key].value)
                           /\ store' = store
                  /\ (pc'[t] = "save" /\ call'[t].op = "read")
                        => /\ call'[t].key \in DOMAIN store
                           /\ PastExpiry(store[call'[t].key])
       /\ (pc' = pc /\ call' = call /\ phase' = phase /\ store' # store)
             => \A k \in DOMAIN store :
                   k \in DOMAIN store' <=> ~PastExpiry(store[k])]_vars

\* an entry created with a ttl was read at its expiry instant exactly, and the
\* read returned its value
C15_Witness ==
    /\ ret.call.op = "read"
    /\ ret.call.key \in DOMAIN store
    /\ ret.r = JsonDump(store[ret.call.key].value)
    /\ store[ret.call.key].ttl # 0
    /\ store[ret.call.key].ttl = now

\* C16 (empty snapshot is an empty object): a persist that runs while the map
\* is empty writes the JSON object {}, so the text of the file is never the
\* JSON value null.
C16_EmptySnapshotIsObject == file.kind # "null"

\* thread u takes the step in which its read looks at the map
ReadStep(u) ==
    /\ pc[u] = "idle"
    /\ calls' = calls + 1
    /\ \/ ret'.t = u /\ ret'.call.op = "read"
       \/ pc'[u] = "save" /\ call'[u].op = "read"

BatchKeys(t) == {call[t].entries[i].key : i \in 1..Len(call[t].entries)}

\* C17 (no partially applied batch is visible): when a read looks at the map
\* while another thread is inside the insertion loop of a batchCreate, the keys
\* of that batch are all in the map or all out of it.
C17_NoPartialBatchVisible ==
    [][\A u, t \in Clients :
        (ReadStep(u) /\ t # u /\ pc[t] = "batch_insert")
           => \/ BatchKeys(t) \subseteq DOMAIN store
              \/ BatchKeys(t) \cap DOMAIN store = {}]_vars

\* a read returned the value of a key while the map held both keys of a batch
\* (no create has returned success: the two keys came with one batchCreate)
C17_Witness ==
    /\ ret.call.op = "read"
    /\ DOMAIN store = {"a", EdgeKey}
    /\ DOMAIN created = {}
    /\ ret.r = JsonDump(store[ret.call.key].value)

\* C18 (remove ignores expiry): a remove fails with "not found" only for a key
\* that is not in the map, and with "expired" never; for an entry that is in
\* the map, past its expiry or not, it erases the entry and, the snapshot
\* written, returns the one success message.
C18_RemoveIgnoresExpiry ==
    [][\A t \in Clients :
        /\ (ret'.t = t /\ ret'.call.op = "remove" /\ ret' # ret)
              => ret'.r \in {OkDeleted, ErrNotFound, ThrowRuntime}
        /\ (pc[t] = "idle" /\ calls' = calls + 1
                /\ ret'.t = t /\ ret'.call.op = "remove")
              => ret'.call.key \notin DOMAIN store
        /\ (pc[t] = "remove_erase" /\ pc'[t] # "remove_erase")
              => pc'[t] = "save" /\ call[t].key \notin DOMAIN store'
        /\ (pc[t] = "save_unlock" /\ call[t].op = "remove" /\ pc'[t] # pc[t])
              => ret'.t = t /\ ret'.r = OkDeleted]_vars

\* a remove has found its key in the map, with an entry that is past its
\* expiry, and is about to erase it
C18_Witness ==
    \E t \in Clients :
        /\ pc[t] = "remove_erase"
        /\ call[t].key \in DOMAIN store
        /\ store[call[t].key].ttl # 0
        /\ now > store[call[t].key].ttl

\* C19 (sweep effect and frame): a pass of the sweeper that changes the map
\* erases exactly the entries that are past their expiry at that instant,
\* leaves every other entry as it is and does not touch the file; the file
\* changes only in the step of a persisting operation, which writes the map,
\* so until then it still lists the swept keys.
C19_SweepEffectAndFrame ==
    [][/\ (pc' = pc /\ call' = call /\ phase' = phase /\ store' # store)
             => /\ DOMAIN store' = {k \in DOMAIN store : ~PastExpiry(store[k])}
                /\ \A k \in DOMAIN store' : store'[k] = store[k]
                /\ file' = file
       /\ file' # file
             => /\ file' = Serialize(store)
                /\ \/ \E t \in Clients : pc[t] = "save" /\ pc'[t] = "save_unlock"
                   \/ phase = "ready" /\ phase' = "closed"]_vars

\* after one create and no other call, the sweeper has erased the entry from
\* the map, and the file still lists it
C19_Witness ==
    /\ calls = 1
    /\ \A t \in Clients : pc[t] = "idle"
    /\ \E m \in file.members :
          /\ m.key \notin DOMAIN store
          /\ m.ttl # 0
          /\ now > m.ttl

\* C20 (shared batch expiry): the entries one batchCreate inserts all get the
\* same expiry: each insertion after the first writes the expiry that the
\* insertion before it wrote (0 for a ttl of 0), whatever the clock has done
\* in between.  (With every other thread idle, the entry under the preceding,
\* different key of the batch is the one this batch wrote.)
C20_SharedBatchExpiry ==
    [][\A t \in Clients :
        (pc[t] = "batch_insert" /\ call'[t] # call[t])
           => LET c == call[t]
                  e == c.entries[c.idx]
              IN /\ c.ttl = 0 => store'[e.key].ttl = 0
                 /\ (/\ c.idx > 1
                     /\ c.entries[c.idx - 1].key # e.key
                     /\ \A u \in Clients \ {t} : pc[u] = "idle")
                       => store'[e.key].ttl = store[c.entries[c.idx - 1].key].ttl]_vars

C22_CreateIgnoresExpiry ==
    [][/\ \A t \in Clients :
          /\ (/\ pc[t] = "idle" /\ calls' = calls + 1
              /\ ret'.t = t /\ ret'.call.op = "create"
              /\ KeyLength(ret'.call.key) <= MAX_KEY_LENGTH
              /\ DumpLength(ret'.call.value) <= MAX_VALUE_SIZE
              /\ ret'.call.key \in DOMAIN store)
                => /\ ret'.r = ErrExists
                   /\ store' = store
                   /\ file' = file
          /\ (pc[t] = "idle" /\ pc'[t] = "create_insert")
                => call'[t].key \notin DOMAIN store
       /\ DOMAIN store \ DOMAIN store' # {}
             => \/ \E t \in Clients :
                      /\ pc[t] = "idle" /\ pc'[t] = "save" /\ call'[t].op = "read"
                      /\ DOMAIN store \ DOMAIN store' = {call'[t].key}
                \/ \E t \in Clients :
                      /\ pc[t] = "remove_erase" /\ pc'[t] = "save"
                      /\ DOMAIN store \ DOMAIN store' = {call[t].key}
                \/ /\ pc' = pc /\ call' = call /\ phase' = phase
                   /\ \A k \in DOMAIN store \ DOMAIN store' : PastExpiry(store[k])
                \/ phase # "ready" /\ phase' = "ready"]_vars

\* a create on a key whose entry is past its expiry and still in the map has
\* been turned away
C22_Witness ==
    /\ ret.call.op = "create"
    /\ ret.r = ErrExists
    /\ ret.call.key \in DOMAIN store
    /\ PastExpiry(store[ret.call.key])

\* C23 (sweeper lifetime): the sweep thread the constructor starts never runs
\* a cleanup pass on an instance whose destructor has run: no pass has been
\* made on a destroyed instance.
C23_NoSweepAfterDestroy == ~danglingSweep
====
